---- MODULE Spec2Model ----
(***************************************************************************)
(* StartStopTimer (lib/StartStopTimer): a FreeRTOS task that calls a user  *)
(* callback every intervalMultiplier*tInterval milliseconds while          *)
(* time(nullptr) lies in [tStart, tStop), repeats the window nbrOfCycles   *)
(* times, tCyclePeriod seconds apart, and then deletes itself.             *)
(*                                                                         *)
(* The model has two threads: the caller of the public methods (`main`)    *)
(* and the created task running _taskFunction (`task`).  The clock `now`   *)
(* counts milliseconds (FreeRTOS ticks at 1000 Hz); time(nullptr) is the   *)
(* number of whole seconds in it.                                          *)
(***************************************************************************)
EXTENDS Integers, Sequences, FiniteSets, TLC

VARIABLES
    now,        \* the clock, in milliseconds
    tskParams,  \* StartStopTimer::_tskParams
    task,       \* the FreeRTOS task created by init(): scheduler state and position in _taskFunction
    main,       \* the thread that calls the public methods
    hist,       \* history: what the callback and the loop have done so far
    peer        \* a second StartStopTimer object of the program, and its task

vars == <<now, tskParams, task, main, hist, peer>>

-----------------------------------------------------------------------------
(* Program constants *)

MsPerSec == 1000
PollMs == 10
DefaultInterval == 1
DefaultMultiplier == 1000
DefaultCyclePeriod == 86400
DefaultNbrOfCycles == 1
ScenarioInterval == 2    \* initTask2: setTaskInterval(2)
ScenarioStop == 10       \* initTask2: setCycleStop(time(nullptr) + 10)

nullptr == "nullptr"
TaskHandle == "Task"

\* the places the kernel has for the control block of a task: a handle is the
\* address of the block, and the block of a deleted task is used again
TcbAddresses == {TaskHandle, "Task2"}

(* Bounds of the model *)

Now0 == 1            \* time(nullptr) when the object is constructed
StartDelay == 1      \* setCycleStart(Now0) and setCycleStart(Now0 + StartDelay)
Period == 2          \* setCyclePeriod(Period), and setCycleStop(Now0 + Period)
MaxCycles == 2       \* setNbrOfCycles(MaxCycles)
MaxLate == 1         \* clock steps taken while the task could have run
MaxSuspends == 1     \* calls of suspend() that stop a task that was not suspended
Horizon == 7         \* the clock stops Horizon seconds after construction
MaxResumeDelay == 2  \* in the runs without suspend(): seconds from init() to the first resume()
HorizonTwo == 2      \* with two objects, the clock stops HorizonTwo seconds after construction

StartChoices == {Now0, Now0 + StartDelay}
StopChoices == {Now0 + Period}
IntervalChoices == {ScenarioInterval}
PeriodChoices == {Period}
CycleChoices == {MaxCycles}
MultiplierChoices == {DefaultMultiplier}

\* the richer choices of the runs without suspend() and deleteTask()
RunStopChoices == {Now0 + Period + 1, Now0 + ScenarioStop}
RunMultiplierChoices == {DefaultMultiplier, 2 * DefaultMultiplier}
RunCycleChoices == {0, MaxCycles}

\* ceiling of a / b, for b > 0
Ceil(a, b) == IF a <= 0 THEN 0 ELSE (a + b - 1) \div b

\* the longest sleep of line 114, in seconds
MaxSleepSec == 2 * ScenarioInterval

\* Where the clock stops in the runs without suspend(): late enough for every
\* schedule with a set cycle period to run to its end.
RunHorizon ==
    StartDelay + ScenarioStop + (MaxCycles + 1) * (Period + MaxSleepSec) + MaxLate + 2

-----------------------------------------------------------------------------
(* Helpers *)

\* time(nullptr): whole seconds of the clock
Time == now \div MsPerSec

\* pdMS_TO_TICKS at the 1000 Hz tick rate: one tick per millisecond
pdMS_TO_TICKS(ms) == ms

NoTask == [state |-> "none", pc |-> "for", n |-> 0, wake |-> 0]

\* the task has been created and not deleted
TaskExists == task.state \in {"ready", "blocked", "suspended"}

\* the scheduler may run the task: it is ready, or its delay has expired
Runnable ==
    /\ main # "crashed"
    /\ \/ task.state = "ready"
       \/ task.state = "blocked" /\ task.wake <= now

\* the sleep of line 114 is in progress
Sleeping == task.state = "blocked" /\ task.pc = "active" /\ task.wake > now

\* the task leaves the running state by vTaskDelay(ticks)
Delay(ticks, pc) ==
    IF ticks = 0
    THEN [task EXCEPT !.state = "ready", !.wake = 0, !.pc = pc]
    ELSE [task EXCEPT !.state = "blocked", !.wake = now + ticks, !.pc = pc]

Goto(pc) == [task EXCEPT !.state = "ready", !.wake = 0, !.pc = pc]

-----------------------------------------------------------------------------
(* Construction *)

\* an initializer with a multiplier of 1
DefaultParamsUnitMultiplier ==
    [tStart |-> 0, tStop |-> 0, tInterval |-> DefaultInterval,
     intervalMultiplier |-> 1,
     tCyclePeriod |-> DefaultCyclePeriod,
     nbrOfCycles |-> DefaultNbrOfCycles,
     tskHandle |-> nullptr, callback |-> nullptr]

\* the initializer of _tskParams: { 0, 0, 1, 1000, 86400, 1, nullptr, nullptr }
DefaultParams ==
    [tStart |-> 0, tStop |-> 0, tInterval |-> DefaultInterval,
     intervalMultiplier |-> DefaultMultiplier,
     tCyclePeriod |-> DefaultCyclePeriod,
     nbrOfCycles |-> DefaultNbrOfCycles,
     tskHandle |-> nullptr, callback |-> nullptr]

Init ==
    /\ now = Now0 * MsPerSec
    /\ tskParams = DefaultParams
    /\ peer = [tskParams |-> DefaultParams, task |-> NoTask]
    /\ task = NoTask
    /\ main = "config"
    /\ hist = [start0 |-> 0, stop0 |-> 0,  \* tStart and tStop when init() was called
               calls |-> 0,                \* invocations of the callback begun
               lastAnchor |-> -1,          \* the time line 107 has read last
               closed |-> 0,               \* active phases that have seen time >= tStop
               early |-> FALSE,            \* the task ran before init() suspended it
               resumed |-> FALSE,          \* resume() has been called on the task
               resumedLate |-> FALSE,      \* ... the first time after start0
               suspends |-> 0,             \* suspend() calls that stopped the task
               resuspended |-> FALSE,      \* the task is suspended and suspend() was called again
               sleepCut |-> FALSE,         \* a sleep of line 114 was ended by a suspend
               late |-> 0,                 \* clock steps that kept the task waiting
               lastSet |-> 0,              \* the multiplier set last while the task existed
               setAsleep |-> FALSE,        \* ... and one was set during a sleep of line 114
               args |-> <<>>,              \* the texts of the last setCycleStartStop()
               pendingWake |-> 0,          \* the end of the sleep of line 114 a suspend has cut
               shortSleep |-> FALSE]       \* the last test of line 110 came before that end

-----------------------------------------------------------------------------
(* Setters: plain assignments.  All but setIntervalMultiplier are called    *)
(* before init() only.                                                       *)

setCycleStart(tsecStart) ==
    /\ main = "config"
    /\ tskParams' = [tskParams EXCEPT !.tStart = tsecStart]
    /\ UNCHANGED <<now, task, main, hist, peer>>

setCycleStop(tsecStop) ==
    /\ main = "config"
    /\ tskParams' = [tskParams EXCEPT !.tStop = tsecStop]
    /\ UNCHANGED <<now, task, main, hist, peer>>

setTaskInterval(tsecInterval) ==
    /\ main = "config"
    /\ tskParams' = [tskParams EXCEPT !.tInterval = tsecInterval]
    /\ UNCHANGED <<now, task, main, hist, peer>>

setCyclePeriod(tsecPeriod) ==
    /\ main = "config"
    /\ tskParams' = [tskParams EXCEPT !.tCyclePeriod = tsecPeriod]
    /\ UNCHANGED <<now, task, main, hist, peer>>

setNbrOfCycles(nbrOfCycles) ==
    /\ main = "config"
    /\ tskParams' = [tskParams EXCEPT !.nbrOfCycles = nbrOfCycles]
    /\ UNCHANGED <<now, task, main, hist, peer>>

\* called before init() or, by the running caller, at any time after it
setIntervalMultiplier(factor) ==
    /\ main \in {"config", "run"}
    /\ tskParams' = [tskParams EXCEPT !.intervalMultiplier = factor]
    /\ hist' = [hist EXCEPT !.lastSet = IF TaskExists THEN factor ELSE @,
                            !.setAsleep = @ \/ Sleeping]
    /\ UNCHANGED <<now, task, main, peer>>

-----------------------------------------------------------------------------
(* setCycleStartStop: texts are sequences of characters *)

Digits == <<"0", "1", "2", "3", "4", "5", "6", "7", "8", "9">>
IsDigit(c) == \E i \in 1..Len(Digits) : Digits[i] = c
DigitVal(c) == (CHOOSE i \in 1..Len(Digits) : Digits[i] = c) - 1

RECURSIVE SkipSpace(_, _)
SkipSpace(s, i) == IF i <= Len(s) /\ s[i] = " " THEN SkipSpace(s, i + 1) ELSE i

RECURSIVE ScanDigits(_, _, _)
ScanDigits(s, i, acc) ==
    IF i <= Len(s) /\ IsDigit(s[i])
    THEN ScanDigits(s, i + 1, 10 * acc + DigitVal(s[i]))
    ELSE [val |-> acc, pos |-> i]

\* the conversion %d at position i: white space, an optional sign, digits
ScanInt(s, i) ==
    LET j == SkipSpace(s, i)
        signed == j <= Len(s) /\ s[j] \in {"-", "+"}
        k == IF signed THEN j + 1 ELSE j
        r == ScanDigits(s, k, 0)
    IN  [ok |-> r.pos > k,
         val |-> IF signed /\ s[j] = "-" THEN -r.val ELSE r.val,
         pos |-> r.pos]

\* sscanf from directive f of the format on: the values converted, in order;
\* the scan ends at the first directive the text does not match
RECURSIVE Scan(_, _, _, _, _)
Scan(s, fmt, f, i, vals) ==
    IF f > Len(fmt) THEN vals
    ELSE IF fmt[f] = "%d"
    THEN LET r == ScanInt(s, i)
         IN  IF r.ok THEN Scan(s, fmt, f + 1, r.pos, Append(vals, r.val)) ELSE vals
    ELSE IF fmt[f] = " "
    THEN Scan(s, fmt, f + 1, SkipSpace(s, i), vals)
    ELSE IF i <= Len(s) /\ s[i] = fmt[f]
    THEN Scan(s, fmt, f + 1, i + 1, vals)
    ELSE vals

sscanf(s, fmt) == Scan(s, fmt, 1, 1, <<>>)

\* "%d:%d" (line 50) and "%d-%d-%d %d:%d" (lines 53, 61)
IntervalFormat == <<"%d", ":", "%d">>
DateFormat == <<"%d", "-", "%d", "-", "%d", " ", "%d", ":", "%d">>

\* the k-th argument of sscanf after the call: assigned, or left as it was
Stored(old, vals, k) == IF k <= Len(vals) THEN vals[k] ELSE old

\* sscanf into the fields of td
ScanDate(td, text) ==
    LET v == sscanf(text, DateFormat)
    IN  [tm_year |-> Stored(td.tm_year, v, 1), tm_mon |-> Stored(td.tm_mon, v, 2),
         tm_mday |-> Stored(td.tm_mday, v, 3), tm_hour |-> Stored(td.tm_hour, v, 4),
         tm_min |-> Stored(td.tm_min, v, 5)]

\* lines 54-55, 62-63: td.tm_year -= 1900; td.tm_mon -= 1
Adjusted(td) == [td EXCEPT !.tm_year = @ - 1900, !.tm_mon = @ - 1]

\* days from 1970-01-01 to the day d of month m (1..12) of year y
DaysFromCivil(y, m, d) ==
    LET yy == IF m <= 2 THEN y - 1 ELSE y
        era == yy \div 400
        yoe == yy - era * 400
        mp == IF m > 2 THEN m - 3 ELSE m + 9
        doy == (153 * mp + 2) \div 5 + d - 1
        doe == yoe * 365 + yoe \div 4 - yoe \div 100 + doy
    IN  era * 146097 + doe - 719468

\* the date of the day z days after 1970-01-01, as tm_year, tm_mon, tm_mday
CivilFromDays(z) ==
    LET zz == z + 719468
        era == zz \div 146097
        doe == zz - era * 146097
        yoe == (doe - doe \div 1460 + doe \div 36524 - doe \div 146096) \div 365
        doy == doe - (365 * yoe + yoe \div 4 - yoe \div 100)
        mp == (5 * doy + 2) \div 153
        m == IF mp < 10 THEN mp + 3 ELSE mp - 9
    IN  [tm_year |-> yoe + era * 400 + (IF m <= 2 THEN 1 ELSE 0) - 1900,
         tm_mon |-> m - 1,
         tm_mday |-> doy - (153 * mp + 2) \div 5 + 1]

\* the local time zone of the example of lines 39-41 (CEST), seconds east
TzOffset == 7200

\* seconds of local time since 1970-01-01 00:00 that the fields of td stand
\* for, fields out of range carried over as mktime does
LocalSeconds(td) ==
    LET months == 12 * (td.tm_year + 1900) + td.tm_mon
        days == DaysFromCivil(months \div 12, (months % 12) + 1, 1) + td.tm_mday - 1
    IN  86400 * days + 3600 * td.tm_hour + 60 * td.tm_min

\* the value mktime(&td) returns
mktime(td) == LocalSeconds(td) - TzOffset

\* td as mktime(&td) leaves it: the fields brought into range
Normalized(td) ==
    LET t == LocalSeconds(td)
        date == CivilFromDays(t \div 86400)
    IN  [tm_year |-> date.tm_year, tm_mon |-> date.tm_mon, tm_mday |-> date.tm_mday,
         tm_hour |-> (t % 86400) \div 3600, tm_min |-> (t % 3600) \div 60]

\* the division of C: the quotient is truncated toward zero
CDiv(a, b) == IF a >= 0 THEN a \div b ELSE -((-a) \div b)

\* The integers of the model end at 2^31 - 1.  The texts below keep every
\* time_t inside them; a uint32_t of 2^31 or more is represented by the
\* greatest of them.
Uint32Beyond == 2147483647

\* conversion of x > -2^31 to uint32_t: a negative x becomes 2^32 + x
ToUint32(x) == IF x >= 0 THEN x ELSE Uint32Beyond

\* values an int without initializer (tskHH, tskMM, lines 47-48) may hold
Uninitialized == {0, 7}

\* a count computed with the quotient rounded down and no conversion
NbrOfCyclesFloor(tStart, tStop, period) == 1 + (tStop - tStart) \div period

\* line 70: 1 + (tStop - tStart) / tCyclePeriod, stored in a uint32_t
NbrOfCycles(tStart, tStop, period) == ToUint32(1 + CDiv(tStop - tStart, period))

\* setCycleStartStop(), lines 43-74.  It returns nothing.
setCycleStartStop(startDateTime, stopDateTime, taskInterval) ==
    /\ main = "config"
    /\ \E hh0 \in Uninitialized, mm0 \in Uninitialized :
         LET iv == sscanf(taskInterval, IntervalFormat)
             tskHH == Stored(hh0, iv, 1)
             tskMM == Stored(mm0, iv, 2)
             td0 == [tm_year |-> 0, tm_mon |-> 0, tm_mday |-> 0, tm_hour |-> 0, tm_min |-> 0]
             td1 == Adjusted(ScanDate(td0, startDateTime))
             td2 == Adjusted(ScanDate(Normalized(td1), stopDateTime))
         IN  tskParams' = [tskParams EXCEPT
                 !.tInterval = 60 * (60 * tskHH + tskMM),
                 !.tStart = mktime(td1),
                 !.tStop = mktime(td2),
                 !.tCyclePeriod = DefaultCyclePeriod,
                 !.nbrOfCycles = NbrOfCycles(mktime(td1), mktime(td2), DefaultCyclePeriod)]
    /\ hist' = [hist EXCEPT !.args = <<startDateTime, stopDateTime, taskInterval>>]
    /\ UNCHANGED <<now, task, main, peer>>

-----------------------------------------------------------------------------
(* FreeRTOS task control, as the library calls it *)

\* a suspend that toggles: it resumes a task that is suspended already
vTaskSuspendToggles ==
    IF task.state = "suspended"
    THEN [task EXCEPT !.state = "ready"]
    ELSE [task EXCEPT !.state = "suspended", !.wake = 0]

\* vTaskSuspend(handle) of an existing task: wherever the task is, ready or
\* inside vTaskDelay, it goes to the suspended list; a pending delay is dropped.
vTaskSuspend == [task EXCEPT !.state = "suspended", !.wake = 0]

\* a resume that starts the task function again from its first line
vTaskResumeRestarts ==
    IF task.state = "suspended"
    THEN [task EXCEPT !.state = "ready", !.pc = "for", !.n = 0]
    ELSE task

\* vTaskResume(handle): a suspended task becomes ready at once (it returns from
\* the vTaskDelay it was suspended in); any other task is left alone.
vTaskResume ==
    IF task.state = "suspended" THEN [task EXCEPT !.state = "ready"] ELSE task

\* a delete that only parks the task on the suspended list
vTaskDeleteParks == [task EXCEPT !.state = "suspended", !.wake = 0]

\* vTaskDelete(handle) of an existing task
vTaskDelete == [task EXCEPT !.state = "deleted", !.wake = 0]

\* the same calls on the task of the second object
Suspended(t) == [t EXCEPT !.state = "suspended", !.wake = 0]
Resumed(t) == IF t.state = "suspended" THEN [t EXCEPT !.state = "ready"] ELSE t
Deleted(t) == [t EXCEPT !.state = "deleted", !.wake = 0]

PeerTaskExists == peer.task.state \in {"ready", "blocked", "suspended"}

\* the handle of this object is stale and the task of the second object has
\* been given the control block it points to
PeerAtHandle ==
    /\ tskParams.tskHandle # nullptr /\ ~TaskExists
    /\ PeerTaskExists /\ peer.tskParams.tskHandle = tskParams.tskHandle

\* A kernel call on a null handle that means no task, or on the handle of a
\* deleted task (undefined): it has no visible effect, or it brings the
\* system down, or it acts on the task that owns the control block by now.
StrayCall(hit) ==
    \/ main' \in {main, "crashed"} /\ peer' = peer
    \/ PeerAtHandle /\ main' = main /\ peer' = [peer EXCEPT !.task = hit]

-----------------------------------------------------------------------------
(* Lifecycle controller *)

\* init(), lines 5-23: xTaskCreate.  On pdPASS the new task is ready to run
\* from here on, before init() has suspended it.  Otherwise init() never
\* returns (while (true) delay(10)).
initCreate(res) ==
    /\ main = "config"
    /\ IF res = "pdPASS"
       THEN /\ tskParams' = [tskParams EXCEPT !.callback = "cb", !.tskHandle = TaskHandle]
            /\ task' = [state |-> "ready", pc |-> "for", n |-> 0, wake |-> 0]
            /\ main' = "created"
            /\ hist' = [hist EXCEPT !.start0 = tskParams.tStart, !.stop0 = tskParams.tStop]
       ELSE /\ tskParams' = [tskParams EXCEPT !.callback = "cb"]
            /\ main' = "halted"
            /\ UNCHANGED <<task, hist>>
    /\ UNCHANGED <<now, peer>>

\* init(), line 27: vTaskSuspend(_tskParams.tskHandle).  If the task has run to
\* its end in the meantime the handle is stale and the call is undefined: it
\* has no visible effect or it brings the system down.
initSuspend ==
    /\ main = "created"
    /\ IF TaskExists
       THEN /\ task' = vTaskSuspend
            /\ hist' = [hist EXCEPT !.sleepCut = @ \/ Sleeping,
                                    !.pendingWake = IF Sleeping THEN task.wake ELSE @]
            /\ main' = "run"
       ELSE /\ main' \in {"run", "crashed"}
            /\ UNCHANGED <<task, hist>>
    /\ UNCHANGED <<now, tskParams, peer>>

\* resume(): vTaskResume(_tskParams.tskHandle).  With a null handle FreeRTOS
\* asserts (abort) or, with asserts compiled out, does nothing; with a stale
\* handle the call is undefined (StrayCall).
resume ==
    /\ main \in {"config", "run"}
    /\ IF tskParams.tskHandle # nullptr /\ TaskExists
       THEN /\ task' = vTaskResume
            /\ hist' = [hist EXCEPT !.resumed = TRUE, !.resuspended = FALSE,
                                    !.resumedLate = IF hist.resumed THEN @ ELSE Time > hist.start0]
            /\ UNCHANGED <<main, peer>>
       ELSE /\ StrayCall(Resumed(peer.task))
            /\ UNCHANGED <<task, hist>>
    /\ UNCHANGED <<now, tskParams>>

\* suspend(): vTaskSuspend(_tskParams.tskHandle).  A null handle suspends the
\* calling thread itself; a stale handle is undefined.
suspend ==
    /\ main \in {"config", "run"}
    /\ IF tskParams.tskHandle = nullptr
       THEN /\ main' = "selfSuspended"
            /\ UNCHANGED <<task, hist, peer>>
       ELSE IF TaskExists
       THEN /\ task.state # "suspended" => hist.suspends < MaxSuspends
            /\ task' = vTaskSuspend
            /\ hist' = IF task.state = "suspended"
                       THEN [hist EXCEPT !.resuspended = TRUE]
                       ELSE [hist EXCEPT !.suspends = @ + 1, !.sleepCut = @ \/ Sleeping,
                                         !.pendingWake = IF Sleeping THEN task.wake ELSE @]
            /\ UNCHANGED <<main, peer>>
       ELSE /\ StrayCall(Suspended(peer.task))
            /\ UNCHANGED <<task, hist>>
    /\ UNCHANGED <<now, tskParams>>

\* deleteTask(): vTaskDelete(_tskParams.tskHandle); _tskParams.tskHandle = nullptr.
\* A null handle deletes the calling thread itself, which never gets to the
\* assignment; a stale handle is undefined.
deleteTask ==
    /\ main \in {"config", "run"}
    /\ IF tskParams.tskHandle = nullptr
       THEN /\ main' = "selfDeleted"
            /\ UNCHANGED <<task, tskParams, peer>>
       ELSE IF TaskExists
       THEN /\ task' = vTaskDelete
            /\ tskParams' = [tskParams EXCEPT !.tskHandle = nullptr]
            /\ UNCHANGED <<main, peer>>
       ELSE /\ StrayCall(Deleted(peer.task))
            /\ tskParams' = [tskParams EXCEPT !.tskHandle = nullptr]
            /\ UNCHANGED task
    /\ UNCHANGED <<now, hist>>

\* getTaskHandle()
getTaskHandle == tskParams.tskHandle

-----------------------------------------------------------------------------
(* _taskFunction, one action per statement.  task.pc names the statement the  *)
(* task executes next; task.n is the loop variable n.                         *)

\* the history of a step of the task
Ran(h) == [h EXCEPT !.early = @ \/ main = "created"]

\* the loop test with <= for <: one cycle too many
forTestOneMore ==
    /\ Runnable /\ task.pc = "for"
    /\ task' = Goto(IF task.n <= tskParams.nbrOfCycles THEN "wait" ELSE "delete")
    /\ hist' = Ran(hist)
    /\ UNCHANGED <<now, tskParams, main, peer>>

\* line 102: for (n = 0; n < p->nbrOfCycles; ...)
forTest ==
    /\ Runnable /\ task.pc = "for"
    /\ task' = Goto(IF task.n < tskParams.nbrOfCycles THEN "wait" ELSE "delete")
    /\ hist' = Ran(hist)
    /\ UNCHANGED <<now, tskParams, main, peer>>

\* a wait phase that does not wait
waitPollNoWait ==
    /\ Runnable /\ task.pc = "wait"
    /\ task' = Goto("anchor")
    /\ hist' = Ran(hist)
    /\ UNCHANGED <<now, tskParams, main, peer>>

\* line 106: while (p->tStart > time(nullptr)) vTaskDelay(pdMS_TO_TICKS(10))
waitPoll ==
    /\ Runnable /\ task.pc = "wait"
    /\ task' = IF tskParams.tStart > Time
               THEN Delay(pdMS_TO_TICKS(PollMs), "wait")
               ELSE Goto("anchor")
    /\ hist' = Ran(hist)
    /\ UNCHANGED <<now, tskParams, main, peer>>

\* line 107 left out: tStart keeps the configured value
anchorKeepsStart ==
    /\ Runnable /\ task.pc = "anchor"
    /\ task' = Goto("active")
    /\ hist' = Ran([hist EXCEPT !.lastAnchor = Time])
    /\ UNCHANGED <<now, tskParams, main, peer>>

\* line 107: p->tStart = time(nullptr)
anchor ==
    /\ Runnable /\ task.pc = "anchor"
    /\ tskParams' = [tskParams EXCEPT !.tStart = Time]
    /\ task' = Goto("active")
    /\ hist' = Ran([hist EXCEPT !.lastAnchor = Time])
    /\ UNCHANGED <<now, main, peer>>

\* the test of line 110 with <= for <
InWindowClosed == Time <= tskParams.tStop

\* the test of line 110
InWindow == Time < tskParams.tStop

\* a loop that tests after the callback: one invocation in every cycle
activeTestAtLeastOnce ==
    /\ Runnable /\ task.pc = "active"
    /\ IF InWindow \/ (task.state = "ready" /\ Time = tskParams.tStart)
       THEN /\ task' = Goto("sleep")
            /\ hist' = Ran([hist EXCEPT !.calls = @ + 1, !.pendingWake = 0,
                                        !.shortSleep = hist.pendingWake > now])
       ELSE /\ task' = Goto("advStart")
            /\ hist' = Ran([hist EXCEPT !.closed = @ + 1, !.pendingWake = 0,
                                        !.shortSleep = hist.pendingWake > now])
    /\ UNCHANGED <<now, tskParams, main, peer>>

\* lines 110-112: while (time(nullptr) < p->tStop) { p->callback(); ...
\* The callback begins at the time the test has read.
activeTest ==
    /\ Runnable /\ task.pc = "active"
    /\ IF InWindow
       THEN /\ task' = Goto("sleep")
            /\ hist' = Ran([hist EXCEPT !.calls = @ + 1, !.pendingWake = 0,
                                        !.shortSleep = hist.pendingWake > now])
       ELSE /\ task' = Goto("advStart")
            /\ hist' = Ran([hist EXCEPT !.closed = @ + 1, !.pendingWake = 0,
                                        !.shortSleep = hist.pendingWake > now])
    /\ UNCHANGED <<now, tskParams, main, peer>>

\* a sleep computed from the multiplier the object was constructed with
SleepMsOfDefault == DefaultMultiplier * tskParams.tInterval

\* the argument of the vTaskDelay of line 114, in milliseconds
SleepMs == tskParams.intervalMultiplier * tskParams.tInterval

\* a sleep that ends when the window closes, if that comes first
sleepUntilStop ==
    /\ Runnable /\ task.pc = "sleep"
    /\ task' = IF now + pdMS_TO_TICKS(SleepMs) > tskParams.tStop * MsPerSec
               THEN Goto("active")
               ELSE Delay(pdMS_TO_TICKS(SleepMs), "active")
    /\ hist' = Ran(hist)
    /\ UNCHANGED <<now, tskParams, main, peer>>

\* lines 112-114: the callback returns; vTaskDelay(pdMS_TO_TICKS(multiplier * interval))
sleep ==
    /\ Runnable /\ task.pc = "sleep"
    /\ task' = Delay(pdMS_TO_TICKS(SleepMs), "active")
    /\ hist' = Ran(hist)
    /\ UNCHANGED <<now, tskParams, main, peer>>

\* line 116 followed at once by the next cycle, line 117 left out
advStartSkipsStop ==
    /\ Runnable /\ task.pc = "advStart"
    /\ tskParams' = [tskParams EXCEPT !.tStart = @ + tskParams.tCyclePeriod]
    /\ task' = [Goto("for") EXCEPT !.n = @ + 1]
    /\ hist' = Ran(hist)
    /\ UNCHANGED <<now, main, peer>>

\* line 116: p->tStart += p->tCyclePeriod
advStart ==
    /\ Runnable /\ task.pc = "advStart"
    /\ tskParams' = [tskParams EXCEPT !.tStart = @ + tskParams.tCyclePeriod]
    /\ task' = Goto("advStop")
    /\ hist' = Ran(hist)
    /\ UNCHANGED <<now, main, peer>>

\* line 117 adding the interval instead of the cycle period
advStopByInterval ==
    /\ Runnable /\ task.pc = "advStop"
    /\ tskParams' = [tskParams EXCEPT !.tStop = @ + tskParams.tInterval]
    /\ task' = [Goto("for") EXCEPT !.n = @ + 1]
    /\ hist' = Ran(hist)
    /\ UNCHANGED <<now, main, peer>>

\* line 117: p->tStop += p->tCyclePeriod, and the n++ of line 102
advStop ==
    /\ Runnable /\ task.pc = "advStop"
    /\ tskParams' = [tskParams EXCEPT !.tStop = @ + tskParams.tCyclePeriod]
    /\ task' = [Goto("for") EXCEPT !.n = @ + 1]
    /\ hist' = Ran(hist)
    /\ UNCHANGED <<now, main, peer>>

\* what line 120 leaves in _tskParams.tskHandle: vTaskDelete of the running
\* task does not return, so the assignment after it is never executed
HandleAfterSelfDelete == tskParams.tskHandle

\* line 120: vTaskDelete(p->tskHandle); p->tskHandle = nullptr
selfDelete ==
    /\ Runnable /\ task.pc = "delete"
    /\ task' = [vTaskDelete EXCEPT !.pc = "done"]
    /\ tskParams' = [tskParams EXCEPT !.tskHandle = HandleAfterSelfDelete]
    /\ hist' = Ran(hist)
    /\ UNCHANGED <<now, main, peer>>

taskFunction ==
    \/ forTest \/ waitPoll \/ anchor \/ activeTest \/ sleep
    \/ advStart \/ advStop \/ selfDelete

-----------------------------------------------------------------------------
(* The second object.  Its methods are the same code, run on its own        *)
(* _tskParams; the caller calls them once init() of the first has returned.  *)

PeerRunnable ==
    /\ main # "crashed"
    /\ \/ peer.task.state = "ready"
       \/ peer.task.state = "blocked" /\ peer.task.wake <= now

\* what the second object is configured with
PeerSettings == {<<"tStop", Now0 + Period>>}

\* a setter of the second object, lines 76-86: one assignment
peerSetter(field, value) ==
    /\ main = "run" /\ peer.task.state = "none"
    /\ peer' = [peer EXCEPT !.tskParams[field] = value]
    /\ UNCHANGED <<now, tskParams, task, main, hist>>

\* no task that exists has its control block at a
FreeTcb(a) == ~(TaskExists /\ a = TaskHandle)

\* init() of the second object, lines 5-23
peerInitCreate(res) ==
    /\ main = "run" /\ peer.task.state = "none"
    /\ IF res = "pdPASS"
       THEN /\ \E a \in {b \in TcbAddresses : FreeTcb(b)} :
                 peer' = [tskParams |-> [peer.tskParams EXCEPT !.callback = "cb", !.tskHandle = a],
                          task |-> [state |-> "ready", pc |-> "for", n |-> 0, wake |-> 0]]
            /\ main' = "peerCreated"
       ELSE /\ peer' = [peer EXCEPT !.tskParams.callback = "cb"]
            /\ main' = "halted"
    /\ UNCHANGED <<now, tskParams, task, hist>>

\* init() of the second object, line 27
peerInitSuspend ==
    /\ main = "peerCreated"
    /\ IF PeerTaskExists
       THEN peer' = [peer EXCEPT !.task = Suspended(@)] /\ main' = "run"
       ELSE peer' = peer /\ main' \in {"run", "crashed"}
    /\ UNCHANGED <<now, tskParams, task, hist>>

\* resume() of the second object
peerResume ==
    /\ main = "run"
    /\ IF peer.tskParams.tskHandle # nullptr /\ PeerTaskExists
       THEN peer' = [peer EXCEPT !.task = Resumed(@)] /\ main' = main
       ELSE peer' = peer /\ main' \in {main, "crashed"}
    /\ UNCHANGED <<now, tskParams, task, hist>>

\* suspend() of the second object
peerSuspend ==
    /\ main = "run"
    /\ IF peer.tskParams.tskHandle = nullptr
       THEN peer' = peer /\ main' = "selfSuspended"
       ELSE IF PeerTaskExists
       THEN peer' = [peer EXCEPT !.task = Suspended(@)] /\ main' = main
       ELSE peer' = peer /\ main' \in {main, "crashed"}
    /\ UNCHANGED <<now, tskParams, task, hist>>

\* deleteTask() of the second object
peerDeleteTask ==
    /\ main = "run"
    /\ IF peer.tskParams.tskHandle = nullptr
       THEN peer' = peer /\ main' = "selfDeleted"
       ELSE IF PeerTaskExists
       THEN /\ peer' = [peer EXCEPT !.task = Deleted(@), !.tskParams.tskHandle = nullptr]
            /\ main' = main
       ELSE /\ peer' = [peer EXCEPT !.tskParams.tskHandle = nullptr]
            /\ main' \in {main, "crashed"}
    /\ UNCHANGED <<now, tskParams, task, hist>>

\* the task of the second object after its next statement of _taskFunction
PeerTaskStep ==
    LET p == peer.tskParams
        t == peer.task
        goto(pc) == [t EXCEPT !.state = "ready", !.wake = 0, !.pc = pc]
        delay(ms, pc) == [t EXCEPT !.state = "blocked", !.wake = now + pdMS_TO_TICKS(ms), !.pc = pc]
    IN  CASE t.pc = "for" -> goto(IF t.n < p.nbrOfCycles THEN "wait" ELSE "delete")
          [] t.pc = "wait" -> IF p.tStart > Time THEN delay(PollMs, "wait") ELSE goto("anchor")
          [] t.pc = "anchor" -> goto("active")
          [] t.pc = "active" -> goto(IF Time < p.tStop THEN "sleep" ELSE "advStart")
          [] t.pc = "sleep" -> delay(p.intervalMultiplier * p.tInterval, "active")
          [] t.pc = "advStart" -> goto("advStop")
          [] t.pc = "advStop" -> [goto("for") EXCEPT !.n = @ + 1]
          [] t.pc = "delete" -> [Deleted(t) EXCEPT !.pc = "done"]

\* ... and what that statement leaves in the _tskParams of the second object
PeerParamsStep ==
    LET p == peer.tskParams
    IN  CASE peer.task.pc = "anchor" -> [p EXCEPT !.tStart = Time]
          [] peer.task.pc = "advStart" -> [p EXCEPT !.tStart = @ + p.tCyclePeriod]
          [] peer.task.pc = "advStop" -> [p EXCEPT !.tStop = @ + p.tCyclePeriod]
          [] OTHER -> p

\* _taskFunction run by the task of the second object, lines 96-122
peerTaskFunction ==
    /\ PeerRunnable
    /\ peer' = [tskParams |-> PeerParamsStep, task |-> PeerTaskStep]
    /\ UNCHANGED <<now, tskParams, task, main, hist>>

-----------------------------------------------------------------------------
(* The clock *)

\* the next second, in milliseconds
Boundary == (Time + 1) * MsPerSec

\* The instants the clock steps to: the next second, and the end of the sleep
\* of line 114 when it comes first.  The 10 ms polls of line 106 that fall
\* inside one second all read the same time(nullptr) and sleep again; the
\* first poll that can see a new second is the one at the boundary.
Instants == {Boundary} \cup (IF Sleeping /\ task.wake < Boundary THEN {task.wake} ELSE {})

\* a clock step to t that keeps the task waiting for no longer than it asked
OnTime(t) ==
    /\ ~Runnable
    /\ Sleeping => task.wake >= t

\* the clock advances, up to `limit` seconds after construction
tick(limit) ==
    /\ main \notin {"config", "created", "crashed"}
    /\ \E t \in Instants :
         /\ t <= (Now0 + limit) * MsPerSec
         /\ now' = t
         /\ hist' = [hist EXCEPT !.late = IF OnTime(t) THEN @ ELSE @ + 1]
         /\ hist'.late <= MaxLate
    /\ UNCHANGED <<tskParams, task, main, peer>>

-----------------------------------------------------------------------------
(* Specifications *)

configure(stops, multipliers, cycles) ==
    \/ \E t \in StartChoices : setCycleStart(t)
    \/ \E t \in stops : setCycleStop(t)
    \/ \E s \in IntervalChoices : setTaskInterval(s)
    \/ \E s \in PeriodChoices : setCyclePeriod(s)
    \/ \E k \in cycles : setNbrOfCycles(k)
    \/ \E f \in multipliers : main = "config" /\ setIntervalMultiplier(f)

init == (\E res \in {"pdPASS", "pdFAIL"} : initCreate(res)) \/ initSuspend

\* the setters of the single values and the lifecycle methods, called at any time
Next ==
    \/ configure(StopChoices, MultiplierChoices, CycleChoices)
    \/ init
    \/ resume
    \/ suspend
    \/ deleteTask
    \/ taskFunction
    \/ tick(Horizon)

Spec == Init /\ [][Next]_vars

\* the clock of the runs without suspend(): resume() follows init() within
\* MaxResumeDelay seconds
tickRun ==
    /\ hist.resumed \/ Time < Now0 + MaxResumeDelay
    /\ tick(RunHorizon)

\* configure, init(), resume(), and the task left to itself
NextRun ==
    \/ configure(RunStopChoices, RunMultiplierChoices, RunCycleChoices)
    \/ init
    \/ resume
    \/ taskFunction
    \/ tickRun

\* the same with setIntervalMultiplier() called while the task exists
NextSet ==
    \/ configure(RunStopChoices, MultiplierChoices, CycleChoices)
    \/ init
    \/ resume
    \/ \E f \in RunMultiplierChoices : main = "run" /\ setIntervalMultiplier(f)
    \/ taskFunction
    \/ tick(Horizon)

SpecSet == Init /\ [][NextSet]_vars

\* the texts given to setCycleStartStop(): those of initTask4, dates before
\* and after them, and texts that do not have the layout
ExampleStart == <<"2", "0", "2", "3", "-", "0", "6", "-", "1", "3", " ", "2", "2", ":", "4", "0">>
ExampleStop == <<"2", "0", "2", "3", "-", "0", "6", "-", "1", "4", " ", "0", "6", ":", "1", "5">>
ExampleInterval == <<"0", "0", ":", "0", "5">>
StartTexts ==
    {ExampleStart, <<"2", "0", "2", "3", "-", "0", "6", "-", "1", "4", " ", "0", "6", ":", "1", "5">>, <<"2", "0", "2", "4", "-", "0", "2", "-", "2", "9", " ", "0", "0", ":", "0", "0">>,
     <<"2", "0", "2", "3", "-", "0", "6", "-", "1", "3">>, <<"2", "0", "2", "3", "/", "0", "6", "/", "1", "3", " ", "2", "2", ":", "4", "0">>}
StopTexts ==
    {ExampleStop, <<"2", "0", "2", "3", "-", "0", "6", "-", "1", "3", " ", "2", "2", ":", "3", "9">>, <<"2", "0", "2", "3", "-", "0", "6", "-", "1", "0", " ", "2", "2", ":", "4", "0">>,
     <<"2", "0", "2", "3", "-", "0", "6", "-", "1", "6", " ", "2", "2", ":", "4", "0">>, <<"2", "0", "2", "3", "-", "0", "6", "-", "1", "4", "T", "0", "6", ":", "1", "5">>}
IntervalTexts ==
    {ExampleInterval, <<"0", "1", ":", "3", "0">>, <<"2", "4", ":", "0", "0">>, <<"5">>, <<"1", "2", "h">>}

\* setCycleStartStop() with any of the texts, again and again
NextDerive ==
    \E a \in StartTexts, b \in StopTexts, c \in IntervalTexts : setCycleStartStop(a, b, c)

SpecDerive == Init /\ [][NextDerive]_vars

\* two objects: the stop and the lifecycle methods of the first and every
\* method of the second, called at any time
NextTwo ==
    \/ \E t \in StopChoices : setCycleStop(t)
    \/ init
    \/ resume
    \/ suspend
    \/ deleteTask
    \/ taskFunction
    \/ \E s \in PeerSettings : peerSetter(s[1], s[2])
    \/ \E res \in {"pdPASS", "pdFAIL"} : peerInitCreate(res)
    \/ peerInitSuspend
    \/ peerResume
    \/ peerSuspend
    \/ peerDeleteTask
    \/ peerTaskFunction
    \/ tick(HorizonTwo)

SpecTwo == Init /\ [][NextTwo]_vars

\* The scheduler runs a task that can run, and the clock advances.
SpecRun ==
    /\ Init /\ [][NextRun]_vars
    /\ WF_vars(taskFunction) /\ WF_vars(tickRun)

-----------------------------------------------------------------------------
(* C1: number and times of the invocations of a single window *)

\* the sleep of line 114, in whole seconds
SleepSec == SleepMs \div MsPerSec

\* The run C1 is about: one cycle, stop >= start, sleeps of a whole number of
\* seconds, resume() no later than start, every sleep served in full and the
\* task never kept waiting.
ExactRun ==
    /\ tskParams.tskHandle # nullptr
    /\ tskParams.nbrOfCycles = 1
    /\ SleepSec > 0 /\ SleepMs = SleepSec * MsPerSec
    /\ hist.stop0 >= hist.start0
    /\ hist.resumed /\ ~hist.resumedLate
    /\ hist.late = 0 /\ ~hist.sleepCut

\* C1 (as amended): in such a run the k-th invocation (k = 0, 1, ...) begins
\* at start + k * sleep, and when the task has deleted itself the callback has
\* been invoked ceil((stop - start) / sleep) times: the invocations are those
\* at start + k * sleep < stop, so a stop of start + 10 with a sleep of 2 gives
\* the 5 invocations at 0, 2, 4, 6 and 8, and none at 10.
C1_InvocationsOfOneWindow ==
    ExactRun =>
      /\ (task.pc = "sleep" /\ task.state = "ready")
            => Time = hist.start0 + (hist.calls - 1) * SleepSec
      /\ task.pc = "done"
            => hist.calls = Ceil(hist.stop0 - hist.start0, SleepSec)

\* C1 as stated: floor((stop - start) / sleep) + 1 invocations
C1_AsStated ==
    (ExactRun /\ task.pc = "done")
      => hist.calls = (hist.stop0 - hist.start0) \div SleepSec + 1

\* the scenario of initTask2 has run to its end: 5 invocations, not 6
C1_Witness ==
    /\ ExactRun /\ task.pc = "done"
    /\ hist.stop0 = hist.start0 + ScenarioStop
    /\ tskParams.tInterval = ScenarioInterval
    /\ tskParams.intervalMultiplier = DefaultMultiplier
    /\ hist.calls = 5

-----------------------------------------------------------------------------
(* C2: the width of the window across cycles *)

\* C2 as stated: at the start of every cycle the width tStop - tStart is the
\* configured one.  (Stated for the runs in which stop > start and the task
\* did not run before init() had suspended it; it fails without them.)
C2_AsStated ==
    (task.pc = "wait" /\ tskParams.nbrOfCycles > 1 /\ hist.stop0 > hist.start0 /\ ~hist.early)
      => tskParams.tStop - tskParams.tStart = hist.stop0 - hist.start0

\* C2 (as amended): lines 116-117 add the cycle period to both bounds, so the
\* width at the start of cycle n+1 is the width cycle n had after line 107 had
\* re-anchored its start: (stop0 + n * period) - (the time line 107 read).  It
\* is the configured width only when that time is start0 + n * period; a wait
\* phase left d seconds late makes the next window d seconds shorter.
C2_WidthAfterReanchoring ==
    (task.pc = "wait" /\ task.n >= 1) =>
      /\ tskParams.tStop - tskParams.tStart
            = (hist.stop0 + (task.n - 1) * tskParams.tCyclePeriod) - hist.lastAnchor
      /\ hist.lastAnchor = hist.start0 + (task.n - 1) * tskParams.tCyclePeriod
            => tskParams.tStop - tskParams.tStart = hist.stop0 - hist.start0

\* the second cycle starts with a window shorter than the configured one
C2_Witness ==
    /\ task.pc = "wait" /\ task.n >= 1 /\ TaskExists
    /\ hist.stop0 > hist.start0
    /\ tskParams.tStop - tskParams.tStart < hist.stop0 - hist.start0

-----------------------------------------------------------------------------
(* C3: the stored handle and the existence of the task *)

\* C3 as stated: between the methods, a non-null handle names an existing
\* task.  (The runs in which the task ran before init() had suspended it are
\* left out: the claim fails without them.)
C3_AsStated ==
    (main \in {"config", "run"} /\ ~hist.early)
      => (getTaskHandle # nullptr => TaskExists)

-----------------------------------------------------------------------------
(* C4: no work between init() and the first resume() *)

\* C4 as stated: once init() has returned and until resume() is called, the
\* callback has not been invoked, tStart and tStop are as configured and the
\* task has not deleted itself.
C4_AsStated ==
    (main = "run" /\ ~hist.resumed /\ tskParams.tskHandle # nullptr) =>
      /\ hist.calls = 0
      /\ tskParams.tStart = hist.start0 /\ tskParams.tStop = hist.stop0
      /\ task.pc # "done"

-----------------------------------------------------------------------------
(* C5: termination after nbrOfCycles window advances *)

\* the schedule ends before the clock of the model stops
Fits == tskParams.tCyclePeriod # DefaultCyclePeriod \/ tskParams.nbrOfCycles <= 1

\* C5: a task that has been resumed, and is not suspended or deleted from
\* outside afterwards, deletes itself, and whenever it has, tStop is the
\* configured stop plus nbrOfCycles * tCyclePeriod.
C5_SelfTerminates ==
    /\ [](task.pc = "done" =>
            /\ task.state = "deleted" /\ task.n = tskParams.nbrOfCycles
            /\ tskParams.tStop = hist.stop0 + tskParams.nbrOfCycles * tskParams.tCyclePeriod)
    /\ (hist.resumed /\ TaskExists /\ Fits) ~> (task.pc = "done")

\* a resumed task has run its two cycles, with invocations, and deleted itself
C5_Witness ==
    /\ task.pc = "done" /\ hist.resumed /\ hist.calls > 0
    /\ tskParams.nbrOfCycles = MaxCycles
    /\ tskParams.tStop = hist.stop0 + MaxCycles * Period

-----------------------------------------------------------------------------
(* C6: every invocation begins inside the window of its cycle *)

-----------------------------------------------------------------------------
(* C7: cycles run one after the other *)

\* C7: whenever the task is in the wait phase or the active phase of cycle n,
\* the active phases of the n cycles before it have each seen time >= tStop,
\* tStop has been advanced n times, and tStart once since line 107 set it.
C7_CyclesSequential ==
    task.pc \in {"wait", "anchor", "active", "sleep"} =>
      /\ hist.closed = task.n
      /\ tskParams.tStop = hist.stop0 + task.n * tskParams.tCyclePeriod
      /\ (task.pc = "wait" /\ task.n >= 1)
            => tskParams.tStart = hist.lastAnchor + tskParams.tCyclePeriod

\* the second cycle is in its active phase, after a suspend() and a resume()
C7_Witness ==
    /\ task.pc = "active" /\ task.state = "ready" /\ task.n = 1
    /\ hist.suspends >= 1 /\ hist.resumed /\ hist.calls >= 1

-----------------------------------------------------------------------------
(* C8: the start of the next cycle *)

\* C8: from the advance of cycle i until line 107 of cycle i+1, tStart is the
\* time line 107 read in cycle i plus the cycle period, and the wait phase of
\* cycle i+1 is not left before the clock has reached it.
C8_NextStartFromActual ==
    task.n >= 1 =>
      /\ task.pc \in {"for", "wait"}
            => tskParams.tStart = hist.lastAnchor + tskParams.tCyclePeriod
      /\ task.pc = "anchor" => Time >= hist.lastAnchor + tskParams.tCyclePeriod

\* the second wait phase is over, its start counted from a first cycle that
\* began later than configured
C8_Witness ==
    /\ task.pc = "anchor" /\ task.n = 1 /\ TaskExists
    /\ hist.start0 >= Now0
    /\ hist.lastAnchor > hist.start0
    /\ tskParams.tStart = hist.lastAnchor + Period

-----------------------------------------------------------------------------
(* C9: a suspended task is frozen *)

\* C9: no step from a state in which the task is suspended begins an
\* invocation or changes tStart, tStop, the cycle index or the position in
\* the loop; the task leaves the state only by resume(), ready to go on from
\* that position, or by deleteTask().
C9_SuspendedIsFrozen ==
    [][task.state = "suspended" =>
         /\ hist'.calls = hist.calls
         /\ tskParams'.tStart = tskParams.tStart /\ tskParams'.tStop = tskParams.tStop
         /\ task'.n = task.n /\ task'.pc = task.pc
         /\ task'.state \in {"suspended", "ready", "deleted"}
         /\ task'.state = "ready" => hist'.resumed]_vars

\* suspended by suspend() in the sleep after an invocation
C9_Witness ==
    /\ task.state = "suspended" /\ task.pc = "active"
    /\ hist.suspends = 1 /\ hist.sleepCut /\ hist.calls >= 1 /\ ~hist.early

-----------------------------------------------------------------------------
(* C10: suspend() twice *)

\* C10: suspend() on an existing task leaves it suspended and the caller
\* running, and on a task that is suspended already it changes nothing.
C10_SuspendIdempotent ==
    [][(suspend /\ tskParams.tskHandle # nullptr /\ TaskExists) =>
         /\ task'.state = "suspended" /\ main' = main
         /\ task.state = "suspended"
               => (task' = task /\ tskParams' = tskParams /\ now' = now)]_vars

\* suspend() has been called on the suspended task
C10_Witness == hist.resuspended /\ task.state = "suspended" /\ hist.suspends = 1

-----------------------------------------------------------------------------
(* C11: deleteTask() ends the task for good *)

\* the task was deleted by deleteTask(), not by itself at line 120
DeletedFromOutside == task.state = "deleted" /\ task.pc # "done"

\* C11: deleteTask() on an existing task, wherever the task is, leaves the
\* task deleted and the handle null; and no step from a state in which the
\* task has been deleted so begins an invocation, changes tStart or tStop,
\* moves the task or sets the handle, whatever resume() or suspend() follows.
C11_DeletedIsAbsorbing ==
    [][/\ (deleteTask /\ tskParams.tskHandle # nullptr /\ TaskExists)
            => (task'.state = "deleted" /\ tskParams'.tskHandle = nullptr)
       /\ DeletedFromOutside
            => /\ task' = task /\ hist'.calls = hist.calls
               /\ tskParams.tskHandle = nullptr /\ tskParams' = tskParams]_vars

\* deleted in the sleep after an invocation, and suspend() called afterwards
C11_Witness ==
    /\ DeletedFromOutside /\ task.pc = "active" /\ hist.calls >= 1
    /\ tskParams.tskHandle = nullptr /\ main = "selfSuspended"

-----------------------------------------------------------------------------
(* C12: setIntervalMultiplier() while the task sleeps *)

\* C12: setIntervalMultiplier(f) called during the sleep of line 114 stores f
\* and leaves the task and the end of its sleep as they are; and every sleep
\* that starts after a call asks for f * tInterval ticks (milliseconds), f
\* being the multiplier set last.
C12_NextSleepUsesNewMultiplier ==
    [][/\ \A f \in RunMultiplierChoices :
            (Sleeping /\ main = "run" /\ setIntervalMultiplier(f))
               => (task' = task /\ tskParams'.intervalMultiplier = f)
       /\ (sleep /\ hist.lastSet # 0)
            => /\ task'.state = "blocked"
               /\ task'.wake = now + hist.lastSet * tskParams.tInterval]_vars

\* the multiplier was doubled during a sleep, that sleep was served in full,
\* and the next sleep is the longer one
C12_Witness ==
    /\ Sleeping /\ hist.calls >= 2 /\ ~hist.sleepCut
    /\ hist.setAsleep /\ hist.lastSet = 2 * DefaultMultiplier
    /\ task.wake - now > DefaultMultiplier * tskParams.tInterval

-----------------------------------------------------------------------------
(* C13: what setCycleStartStop() derives from well-formed texts *)

\* the text has the layout "YYYY-MM-DD HH:MM"
IsDateLayout(t) ==
    /\ Len(t) = 16
    /\ \A i \in 1..16 :
         IF i \in {5, 8} THEN t[i] = "-"
         ELSE IF i = 11 THEN t[i] = " "
         ELSE IF i = 14 THEN t[i] = ":"
         ELSE IsDigit(t[i])

\* the text has the layout "HH:MM"
IsIntervalLayout(t) ==
    Len(t) = 5 /\ t[3] = ":" /\ \A i \in {1, 2, 4, 5} : IsDigit(t[i])

\* the number written in the characters a..b of the text
Field(t, a, b) == ScanDigits(SubSeq(t, a, b), 1, 0).val

\* setCycleStartStop() has been called, last with texts of the right layout
DerivedFromWellFormed ==
    /\ hist.args # <<>>
    /\ IsDateLayout(hist.args[1]) /\ IsDateLayout(hist.args[2])
    /\ IsIntervalLayout(hist.args[3])

\* C13 as stated: for well-formed texts tInterval = 60 * (60 * HH + MM),
\* tCyclePeriod = 86400 and nbrOfCycles = 1 + floor((tStop - tStart) / 86400),
\* also when tStop < tStart.
C13_AsStated ==
    DerivedFromWellFormed =>
      /\ tskParams.tInterval
            = 60 * (60 * Field(hist.args[3], 1, 2) + Field(hist.args[3], 4, 5))
      /\ tskParams.tCyclePeriod = DefaultCyclePeriod
      /\ tskParams.nbrOfCycles
            = NbrOfCyclesFloor(tskParams.tStart, tskParams.tStop, DefaultCyclePeriod)

\* C13, the part that holds: the same where tStop >= tStart, and the texts
\* of initTask4 give tInterval = 300, tCyclePeriod = 86400, nbrOfCycles = 1.
C13_FromStartOn ==
    /\ (DerivedFromWellFormed /\ tskParams.tStop >= tskParams.tStart) =>
         /\ tskParams.tInterval
               = 60 * (60 * Field(hist.args[3], 1, 2) + Field(hist.args[3], 4, 5))
         /\ tskParams.tCyclePeriod = DefaultCyclePeriod
         /\ tskParams.nbrOfCycles
               = NbrOfCyclesFloor(tskParams.tStart, tskParams.tStop, DefaultCyclePeriod)
    /\ hist.args = <<ExampleStart, ExampleStop, ExampleInterval>> =>
         /\ tskParams.tInterval = 300 /\ tskParams.tCyclePeriod = 86400
         /\ tskParams.nbrOfCycles = 1

\* a stop three days before the start: the count has wrapped around
C13_Wrapped ==
    /\ DerivedFromWellFormed
    /\ tskParams.tStop < tskParams.tStart - 2 * DefaultCyclePeriod
    /\ tskParams.nbrOfCycles = Uint32Beyond

-----------------------------------------------------------------------------
(* C14: texts that do not have the layout *)

\* C14 as stated: a call of setCycleStartStop() with a text that does not
\* have its layout stores nothing: tInterval, tStart, tStop and nbrOfCycles
\* are after the call what they were before it.  (The function returns void,
\* so there is no error for the caller to see either.)
C14_AsStated ==
    [][\A a \in StartTexts, b \in StopTexts, c \in IntervalTexts :
          (/\ setCycleStartStop(a, b, c)
           /\ ~(IsDateLayout(a) /\ IsDateLayout(b) /\ IsIntervalLayout(c)))
             => /\ tskParams'.tInterval = tskParams.tInterval
                /\ tskParams'.tStart = tskParams.tStart
                /\ tskParams'.tStop = tskParams.tStop
                /\ tskParams'.nbrOfCycles = tskParams.nbrOfCycles]_vars

\* the interval text "5": the hours are read as 5, the minutes are whatever
\* the uninitialized tskMM holds, and the interval is stored
C14_IntervalFromHalfParsedText ==
    /\ hist.args # <<>> /\ hist.args[3] = <<"5">>
    /\ \E mm \in Uninitialized : tskParams.tInterval = 60 * (60 * 5 + mm)

-----------------------------------------------------------------------------
(* C15: the configuration of a freshly constructed object *)

\* no setter has been called and init() has not (in the runs of
\* setCycleStartStop(), where it is the only setter)
Fresh == hist.args = <<>> /\ main = "config" /\ task.state = "none"

\* C15 as stated: a fresh object has intervalMultiplier = 1
C15_AsStated ==
    Fresh => tskParams = [tStart |-> 0, tStop |-> 0, tInterval |-> 1,
                          intervalMultiplier |-> 1, tCyclePeriod |-> 86400,
                          nbrOfCycles |-> 1, tskHandle |-> nullptr, callback |-> nullptr]

\* C15 (as amended): a fresh object has tStart = 0, tStop = 0, tInterval = 1,
\* intervalMultiplier = 1000, tCyclePeriod = 86400, nbrOfCycles = 1, a null
\* handle and a null callback, so that its sleep of line 114 is 1000 ms.
C15_Defaults ==
    Fresh =>
      /\ tskParams = [tStart |-> 0, tStop |-> 0, tInterval |-> 1,
                      intervalMultiplier |-> 1000, tCyclePeriod |-> 86400,
                      nbrOfCycles |-> 1, tskHandle |-> nullptr, callback |-> nullptr]
      /\ pdMS_TO_TICKS(SleepMs) = MsPerSec

\* the object as constructed
C15_Witness == Fresh /\ now = Now0 * MsPerSec /\ getTaskHandle = nullptr

-----------------------------------------------------------------------------
(* C16: test, callback, sleep *)

\* C16 as stated: the test of line 110 that follows an invocation never
\* comes before the sleep after that invocation has lasted its full time.
\* (The runs in which the task ran before init() had suspended it are left
\* out: the claim fails without them.)
C16_AsStated == ~hist.early => ~hist.shortSleep

\* C16 (as amended): an invocation begins only by a test of line 110 that
\* found time < tStop; after it the task does nothing but start the sleep of
\* intervalMultiplier * tInterval ms, whatever the time is by then; nothing the
\* task does ends a sleep in progress, only a suspend or a delete from outside
\* does; and the test comes before the end of the sleep only after a suspend
\* has cut that sleep.
C16_TestInvokeSleep ==
    [][/\ hist'.calls # hist.calls
            => /\ task.pc = "active" /\ InWindow
               /\ task'.pc = "sleep" /\ hist'.calls = hist.calls + 1
       /\ (task.pc = "sleep" /\ task'.pc # "sleep")
            => /\ task'.pc = "active" /\ task'.state = "blocked"
               /\ task'.wake = now + pdMS_TO_TICKS(SleepMs)
       /\ (Sleeping /\ task' # task)
            => /\ task'.state \in {"suspended", "deleted"}
               /\ task'.pc = task.pc /\ task'.n = task.n
       /\ hist'.shortSleep => hist.sleepCut]_vars

\* the window has closed during a sleep, and the sleep goes on
C16_Witness ==
    /\ Sleeping /\ Time >= tskParams.tStop /\ hist.calls >= 1
    /\ ~hist.sleepCut /\ hist.resumed

\* suspended in the sleep and resumed: the next invocation has begun before
\* the sleep would have ended
C16_EarlyInvocation == hist.shortSleep /\ task.pc = "sleep" /\ hist.calls >= 2 /\ ~hist.early

-----------------------------------------------------------------------------
(* C17: two objects *)

\* a method of the first object, or a step of its task
FirstActs == init \/ resume \/ suspend \/ deleteTask \/ taskFunction

\* a method of the second object, or a step of its task
PeerActs ==
    \/ \E s \in PeerSettings : peerSetter(s[1], s[2])
    \/ \E res \in {"pdPASS", "pdFAIL"} : peerInitCreate(res)
    \/ peerInitSuspend \/ peerResume \/ peerSuspend \/ peerDeleteTask
    \/ peerTaskFunction

\* C17 as stated: whatever one object or its task does leaves the
\* configuration, the handle and the task of the other as they are.
C17_AsStated ==
    [][/\ FirstActs => peer' = peer
       /\ PeerActs => (tskParams' = tskParams /\ task' = task)]_vars

\* C17, the part that holds: the same as long as the handle of the acting
\* object is null or names its own, existing task.
C17_FrameWhileHandleValid ==
    [][/\ (FirstActs /\ (tskParams.tskHandle = nullptr \/ TaskExists)) => peer' = peer
       /\ PeerActs => (tskParams' = tskParams /\ task' = task)]_vars

\* the task of the second object is gone, and neither itself nor
\* deleteTask() of its object has deleted it
C17_DeletedByTheOther ==
    /\ peer.task.state = "deleted" /\ peer.task.pc # "done"
    /\ peer.tskParams.tskHandle # nullptr

-----------------------------------------------------------------------------
(* C18: a window that has passed *)

\* the stop of the cycle in which line 107 last read the time
AnchoredStop ==
    hist.stop0 + tskParams.tCyclePeriod *
        (IF task.pc \in {"active", "sleep", "advStart", "advStop"} THEN task.n ELSE task.n - 1)

\* the wait phase of that cycle was left at or after its stop
Missed == hist.lastAnchor >= 0 /\ hist.lastAnchor >= AnchoredStop

\* C18: a cycle whose wait phase is left at or after its stop invokes nothing:
\* its first test of line 110 leads to the advance, which adds the cycle
\* period to tStart and to tStop and counts the cycle; every cycle after it is
\* missed as well.  So a task whose first window had passed when the object
\* was constructed never invokes the callback, and when it has deleted itself
\* it has counted nbrOfCycles cycles without an invocation.
C18_MissedCycle ==
    /\ []((hist.stop0 <= Now0 /\ task.state # "none") => hist.calls = 0)
    /\ []((task.pc = "done" /\ Missed)
            => /\ task.n = tskParams.nbrOfCycles
               /\ hist.closed = tskParams.nbrOfCycles
               /\ tskParams.tStop
                     = hist.stop0 + tskParams.nbrOfCycles * tskParams.tCyclePeriod)
    /\ [][Missed =>
            /\ hist'.calls = hist.calls /\ Missed'
            /\ (task.pc = "active" /\ task'.pc # "active")
                  => (task'.pc = "advStart" /\ hist'.closed = hist.closed + 1)
            /\ (task.pc = "advStart" /\ task'.pc # "advStart")
                  => tskParams'.tStart = tskParams.tStart + tskParams.tCyclePeriod
            /\ (task.pc = "advStop" /\ task'.pc # "advStop")
                  => /\ tskParams'.tStop = tskParams.tStop + tskParams.tCyclePeriod
                     /\ task'.n = task.n + 1]_vars

\* a window still ahead when init() was called, missed because resume() came
\* late: both cycles have been counted, nothing was invoked
C18_Witness ==
    /\ task.pc = "done" /\ Missed /\ hist.calls = 0 /\ ~hist.early
    /\ hist.stop0 > Now0 /\ hist.resumedLate
    /\ tskParams.nbrOfCycles = MaxCycles /\ hist.closed = MaxCycles

\* C18, termination: a resumed task whose first window had passed when the
\* object was constructed deletes itself, and has invoked nothing.
C18_EndsUninvoked ==
    (hist.resumed /\ TaskExists /\ Fits /\ hist.stop0 <= Now0)
        ~> (task.pc = "done" /\ hist.calls = 0)

====
